---------------------------- MODULE Spec2Model ----------------------------
(***************************************************************************)
(* streaming-qcow2-writer: the layout planner (StreamingQcow2Writer::new), *)
(* the metadata encoder (write_header, write_refcount_table,               *)
(* write_mapping_table) and the data streamer (copy_data), driven as main  *)
(* drives them: new, then write_header, then copy_data.                    *)
(*                                                                         *)
(* The output stream is modelled byte by byte.  The program's cluster is   *)
(* 1 << 16 bytes; the model keeps every formula of the code in terms of    *)
(* CLUSTER_SIZE and scales the exponent down (ClusterBits), so that tables *)
(* spanning several clusters and a changing refcount-block count are       *)
(* reached with outputs of a few thousand bytes.  All u64 values of the    *)
(* model stay far below 2^31; the top bit (1 << 63) of a table entry is    *)
(* carried in the most significant byte of its big-endian encoding.        *)
(***************************************************************************)
EXTENDS Integers, Sequences, FiniteSets

\* log2 of the cluster size (16 in the program: qcow2.rs line 6 and line 126)
ClusterBits == 7

\* largest number of ranges in an enumerated layout
MaxRanges == 3

CLUSTER_SIZE == 2 ^ ClusterBits

\* bytes of header fields written before the zero padding of cluster 0
HEADER_FIELDS_BYTES == 72

\* Option::None of last_cluster
None == -1

\* pointer entries per cluster and refcount entries per cluster
EntriesPerCluster == CLUSTER_SIZE \div 8

BlockEntriesPerCluster == CLUSTER_SIZE \div 2

VARIABLES
    input_size,               \* size of the input, also the length of the source
    ranges,                   \* the layout: sequence of [start, end) byte ranges
    pc,                       \* position of main
    idx,                      \* next range of the `for range in ranges` loop
    last_cluster,             \* new: last cluster of the previous range, or None
    data_clusters,            \* plan: guest clusters to copy, in copy order
    l2_tables,                \* new: number of L2 clusters
    l1_clusters,              \* plan: number of L1 clusters
    refcount_blocks,          \* new: number of refcount blocks
    refcount_table_clusters,  \* plan: number of refcount table clusters
    l1_offset,                \* plan: byte offset of the L1 table
    first_data_cluster,       \* plan: host cluster of the first data cluster
    output,                   \* bytes written to the output so far
    region                    \* stream position at which each region was written

vars == <<input_size, ranges, pc, idx, last_cluster, data_clusters, l2_tables,
          l1_clusters, refcount_blocks, refcount_table_clusters, l1_offset,
          first_data_cluster, output, region>>

planVars == <<l2_tables, l1_clusters, refcount_blocks, refcount_table_clusters,
              l1_offset, first_data_cluster>>

----------------------------------------------------------------------------
(* Arithmetic and encodings *)

divide_and_round_up(a, b) == (a + b - 1) \div b

Min(a, b) == IF a < b THEN a ELSE b

Zeros(n) == [i \in 1..n |-> 0]

\* write_u16 / write_u32 / write_u64 ::<BigEndian>, for values below 2^31
U16BE(v) == <<(v \div 256) % 256, v % 256>>

U32BE(v) == <<(v \div 16777216) % 256, (v \div 65536) % 256, (v \div 256) % 256, v % 256>>

U64BE(v) == <<0, 0, 0, 0>> \o U32BE(v)

\* the big-endian bytes of (v | (1 << 63)), given those of v
OrTopBit(bytes) == [bytes EXCEPT ![1] = IF @ >= 128 THEN @ ELSE @ + 128]

\* the bytes of consecutive entries of `width` bytes each, in writing order
Table(entries, width) ==
    [i \in 1..(Len(entries) * width) |->
        entries[((i - 1) \div width) + 1][((i - 1) % width) + 1]]

----------------------------------------------------------------------------
(* The inputs *)

\* byte offsets from which the enumerated ranges are built
Offsets ==
    {0, 5, CLUSTER_SIZE, CLUSTER_SIZE + 7, 3 * CLUSTER_SIZE,
     (EntriesPerCluster + 1) * CLUSTER_SIZE + 5}

Ranges == {r \in [start : Offsets, end : Offsets] : r.start < r.end}

RangeSeqs == UNION {[1..n -> Ranges] : n \in 0..MaxRanges}

Sizes ==
    {0, 1, 3 * CLUSTER_SIZE,
     EntriesPerCluster * CLUSTER_SIZE,
     (EntriesPerCluster + 1) * CLUSTER_SIZE + 5}

\* whole-image layouts (main's default `0..input_size`) around the sizes at
\* which the refcount block count changes, and one whose refcount table and
\* L1 table take more than one cluster
WholeImageClusters ==
    ((BlockEntriesPerCluster - 9)..(BlockEntriesPerCluster - 6))
        \cup ((2 * BlockEntriesPerCluster - 13)..(2 * BlockEntriesPerCluster - 11))
        \cup {EntriesPerCluster * BlockEntriesPerCluster - EntriesPerCluster + 3}

\* layouts of many clusters, around the sizes at which the number of refcount
\* blocks, and the number of refcount table clusters, change
ManyClusters ==
    WholeImageClusters
        \cup ((EntriesPerCluster * BlockEntriesPerCluster - 24)
                 ..(EntriesPerCluster * BlockEntriesPerCluster - 16))

\* content of the source at byte position pos (never zero)
SourceByte(pos) == (pos % 251) + 1

----------------------------------------------------------------------------
(* StreamingQcow2Writer::new *)

\* main before the call of new: nothing planned, nothing written
Start ==
    /\ pc = "ranges"
    /\ idx = 1
    /\ last_cluster = None
    /\ data_clusters = <<>>
    /\ l2_tables = 0
    /\ l1_clusters = 0
    /\ refcount_blocks = 0
    /\ refcount_table_clusters = 0
    /\ l1_offset = 0
    /\ first_data_cluster = 0
    /\ output = <<>>
    /\ region = [refcount_table |-> 0, refcount_blocks |-> 0, l1 |-> 0,
                 l2 |-> 0, data |-> 0]

Init ==
    /\ \/ /\ input_size \in Sizes
          /\ ranges \in RangeSeqs
       \/ \E d \in WholeImageClusters :
             /\ input_size = d * CLUSTER_SIZE
             /\ ranges = <<[start |-> 0, end |-> d * CLUSTER_SIZE]>>
    /\ Start

FromCluster(range) == range.start \div CLUSTER_SIZE

\* a rounding slip: one past the cluster that holds range.end
ToClusterPastEnd(range) == (range.end \div CLUSTER_SIZE) + 1

ToCluster(range) == divide_and_round_up(range.end, CLUSTER_SIZE)

\* the ordering test off by one cluster, in either direction
NotSortedLax(from_cluster, last) == last # None /\ from_cluster + 1 < last

NotSortedStrict(from_cluster, last) == last # None /\ from_cluster <= last

\* `from_cluster < last_cluster`: the range starts before the cluster in which
\* the previous range ended
NotSorted(from_cluster, last) == last # None /\ from_cluster < last

\* the shared boundary cluster not skipped
UnadjustedFrom(from_cluster, last) == from_cluster

\* from_cluster after the `from_cluster == last_cluster` adjustment
AdjustedFrom(from_cluster, last) ==
    IF last # None /\ from_cluster = last THEN from_cluster + 1 ELSE from_cluster

\* the clusters from..to-1 in ascending order
ClusterRun(from, to) == [k \in 1..(IF to > from THEN to - from ELSE 0) |-> from + k - 1]

\* one iteration of `for range in ranges` that panics
NewRangePanic ==
    /\ pc = "ranges"
    /\ idx <= Len(ranges)
    /\ NotSorted(FromCluster(ranges[idx]), last_cluster)
    /\ pc' = "panicked"
    /\ UNCHANGED <<input_size, ranges, idx, last_cluster, data_clusters,
                   planVars, output, region>>

\* one iteration of `for range in ranges` that appends the range's clusters
NewRangePush ==
    /\ pc = "ranges"
    /\ idx <= Len(ranges)
    /\ ~NotSorted(FromCluster(ranges[idx]), last_cluster)
    /\ LET from_cluster == AdjustedFrom(FromCluster(ranges[idx]), last_cluster)
           to_cluster == ToCluster(ranges[idx])
       IN /\ last_cluster' = to_cluster - 1
          /\ data_clusters' = data_clusters \o ClusterRun(from_cluster, to_cluster)
    /\ idx' = idx + 1
    /\ UNCHANGED <<input_size, ranges, pc, planVars, output, region>>

total_guest_clusters == divide_and_round_up(input_size, CLUSTER_SIZE)

\* after the ranges: the L2 and L1 table sizes, and the loop's starting values
NewTables ==
    /\ pc = "ranges"
    /\ idx > Len(ranges)
    /\ LET guest_clusters == divide_and_round_up(input_size, CLUSTER_SIZE)
           tables == divide_and_round_up(guest_clusters * 8, CLUSTER_SIZE)
       IN /\ l2_tables' = tables
          /\ l1_clusters' = divide_and_round_up(tables * 8, CLUSTER_SIZE)
    /\ refcount_blocks' = 1
    /\ refcount_table_clusters' = 1
    /\ pc' = "sizing"
    /\ UNCHANGED <<input_size, ranges, idx, last_cluster, data_clusters,
                   l1_offset, first_data_cluster, output, region>>

\* total_clusters of the sizing loop
LoopTotalClusters ==
    1 + refcount_table_clusters + refcount_blocks + l1_clusters + l2_tables
      + Len(data_clusters)

\* the block count rounded down
NewRefcountBlocksFloor(total) == (total * 2) \div CLUSTER_SIZE

NewRefcountBlocks(total) == divide_and_round_up(total * 2, CLUSTER_SIZE)

NewRefcountTableClusters(blocks) == divide_and_round_up(blocks * 8, CLUSTER_SIZE)

\* an iteration of the sizing loop that changes the number of refcount blocks
SizingIterate ==
    /\ pc = "sizing"
    /\ NewRefcountBlocks(LoopTotalClusters) # refcount_blocks
    /\ refcount_blocks' = NewRefcountBlocks(LoopTotalClusters)
    /\ refcount_table_clusters' =
          NewRefcountTableClusters(NewRefcountBlocks(LoopTotalClusters))
    /\ UNCHANGED <<input_size, ranges, pc, idx, last_cluster, data_clusters,
                   l2_tables, l1_clusters, l1_offset, first_data_cluster,
                   output, region>>

\* the iteration that breaks, and the construction of the plan
SizingBreak ==
    /\ pc = "sizing"
    /\ NewRefcountBlocks(LoopTotalClusters) = refcount_blocks
    /\ l1_offset' = CLUSTER_SIZE * (1 + refcount_table_clusters + refcount_blocks)
    /\ first_data_cluster' =
          1 + refcount_table_clusters + refcount_blocks + l1_clusters + l2_tables
    /\ pc' = "header"
    /\ UNCHANGED <<input_size, ranges, idx, last_cluster, data_clusters,
                   l2_tables, l1_clusters, refcount_blocks,
                   refcount_table_clusters, output, region>>

total_clusters == first_data_cluster + Len(data_clusters)

file_size == CLUSTER_SIZE * total_clusters

----------------------------------------------------------------------------
(* write_header, write_refcount_table, write_mapping_table *)

\* the L1 table size field of the header
HeaderL1Entries == total_guest_clusters \div EntriesPerCluster

\* the bytes of cluster 0: the header fields and the zero padding
HeaderBytes ==
    <<81, 70, 73, 251>>                      \* magic "QFI\xFB"
        \o U32BE(2)                          \* version
        \o U64BE(0)                          \* backing file name offset
        \o U32BE(0)                          \* backing file name length
        \o U32BE(ClusterBits)                \* bits per cluster address
        \o U64BE(input_size)                 \* virtual disk size
        \o U32BE(0)                          \* encryption method
        \o U32BE(HeaderL1Entries)            \* L1 table size
        \o U64BE(l1_offset)                  \* L1 table offset
        \o U64BE(CLUSTER_SIZE)               \* refcount table offset
        \o U32BE(refcount_table_clusters)    \* refcount table clusters
        \o U32BE(0)                          \* number of snapshots
        \o U64BE(0)                          \* snapshot table offset
        \o Zeros(CLUSTER_SIZE - HEADER_FIELDS_BYTES)

\* padding written also after a table that ends on a cluster boundary
PaddingAlways(n, per_cluster, width) ==
    Zeros((per_cluster - (n % per_cluster)) * width)

\* zero entries that complete the last cluster of a table of n entries
Padding(n, per_cluster, width) ==
    IF n % per_cluster > 0 THEN Zeros((per_cluster - (n % per_cluster)) * width)
    ELSE <<>>

\* the number of refcount blocks, as write_refcount_table recomputes it
WrittenRefcountBlocks == divide_and_round_up(total_clusters * 2, CLUSTER_SIZE)

RefcountTableEntry(block) ==
    U64BE(CLUSTER_SIZE * (1 + refcount_table_clusters + block))

RefcountTableBytes ==
    Table([b \in 1..WrittenRefcountBlocks |-> RefcountTableEntry(b - 1)], 8)
        \o Padding(WrittenRefcountBlocks, EntriesPerCluster, 8)

\* refcounts for the data clusters only
RefcountBlocksDataOnly ==
    Table([c \in 1..Len(data_clusters) |-> U16BE(1)], 2)
        \o Padding(Len(data_clusters), BlockEntriesPerCluster, 2)

RefcountBlocksBytes ==
    Table([c \in 1..total_clusters |-> U16BE(1)], 2)
        \o Padding(total_clusters, BlockEntriesPerCluster, 2)

\* the HashMap built from data_clusters: a later insert of the same guest
\* cluster replaces the earlier one
Mapping ==
    [guest \in {data_clusters[k] : k \in 1..Len(data_clusters)} |->
        LET hosts == {k \in 1..Len(data_clusters) : data_clusters[k] = guest}
        IN (CHOOSE k \in hosts : \A j \in hosts : j <= k) - 1 + first_data_cluster]

\* mapping.get(&guest_cluster)
MappingGet(mapping, guest) ==
    IF guest \in DOMAIN mapping THEN mapping[guest] ELSE None

WrittenL1Entries == divide_and_round_up(total_guest_clusters, EntriesPerCluster)

\* the L1 table's own clusters left out of the L2 offset
L1EntryNoL1Clusters(entry) ==
    OrTopBit(U64BE(l1_offset + entry * CLUSTER_SIZE))

L1Entry(entry) ==
    OrTopBit(U64BE(l1_offset + l1_clusters * CLUSTER_SIZE + entry * CLUSTER_SIZE))

L1TableBytes ==
    Table([n \in 1..WrittenL1Entries |-> L1Entry(n - 1)], 8)
        \o Padding(WrittenL1Entries, EntriesPerCluster, 8)

L2Entry(mapping, guest_cluster) ==
    IF MappingGet(mapping, guest_cluster) = None THEN U64BE(0)
    ELSE OrTopBit(U64BE(MappingGet(mapping, guest_cluster) * CLUSTER_SIZE))

L2TableBytes ==
    LET mapping == Mapping
    IN Table([n \in 1..total_guest_clusters |-> L2Entry(mapping, n - 1)], 8)
           \o Padding(total_guest_clusters, EntriesPerCluster, 8)

\* write_header: the header cluster, then write_refcount_table, then
\* write_mapping_table, all appended to the output
WriteHeader ==
    /\ pc = "header"
    /\ output' = output \o HeaderBytes \o RefcountTableBytes
                        \o RefcountBlocksBytes \o L1TableBytes \o L2TableBytes
    /\ region' =
          LET at_table == Len(output) + Len(HeaderBytes)
              at_blocks == at_table + Len(RefcountTableBytes)
              at_l1 == at_blocks + Len(RefcountBlocksBytes)
              at_l2 == at_l1 + Len(L1TableBytes)
          IN [refcount_table |-> at_table, refcount_blocks |-> at_blocks,
              l1 |-> at_l1, l2 |-> at_l2, data |-> at_l2 + Len(L2TableBytes)]
    /\ pc' = "copy"
    /\ UNCHANGED <<input_size, ranges, idx, last_cluster, data_clusters, planVars>>

----------------------------------------------------------------------------
(* copy_data *)

\* sizes of the largest read a source serves in one call: a source that
\* fills the buffer whenever it can, and one that hands out half a cluster
ReadChunks == {CLUSTER_SIZE, CLUSTER_SIZE \div 2}

\* bytes left in the source after seeking to pos (seeking past the end is allowed)
Available(pos) == IF pos < input_size THEN input_size - pos ELSE 0

\* reader.read(&mut buffer): the number of bytes one call returns
ReadCount(pos, chunk) == Min(Min(CLUSTER_SIZE, chunk), Available(pos))

\* the buffer written for one cluster: zeroed, then filled by a single read
ClusterBuffer(cluster, chunk) ==
    [i \in 1..CLUSTER_SIZE |->
        IF i <= ReadCount(cluster * CLUSTER_SIZE, chunk)
        THEN SourceByte(cluster * CLUSTER_SIZE + i - 1)
        ELSE 0]

CopiedBytes(chunk) ==
    [i \in 1..(Len(data_clusters) * CLUSTER_SIZE) |->
        ClusterBuffer(data_clusters[((i - 1) \div CLUSTER_SIZE) + 1], chunk)
            [((i - 1) % CLUSTER_SIZE) + 1]]

CopyData ==
    /\ pc = "copy"
    /\ \E chunk \in ReadChunks : output' = output \o CopiedBytes(chunk)
    /\ pc' = "done"
    /\ UNCHANGED <<input_size, ranges, idx, last_cluster, data_clusters,
                   planVars, region>>

----------------------------------------------------------------------------

Next ==
    \/ NewRangePanic
    \/ NewRangePush
    \/ NewTables
    \/ SizingIterate
    \/ SizingBreak
    \/ WriteHeader
    \/ CopyData

Spec == Init /\ [][Next]_vars

(* The planner alone, StreamingQcow2Writer::new, also on layouts of many    *)
(* clusters: it ends when the plan is built.                                *)
PlannerNext ==
    \/ NewRangePanic
    \/ NewRangePush
    \/ NewTables
    \/ SizingIterate
    \/ SizingBreak

PlannerInit ==
    /\ \/ /\ input_size \in Sizes
          /\ ranges \in RangeSeqs
       \/ \E d \in ManyClusters :
             /\ input_size \in {0, d * CLUSTER_SIZE}
             /\ ranges = <<[start |-> 0, end |-> d * CLUSTER_SIZE]>>
    /\ Start

PlannerSpec == PlannerInit /\ [][PlannerNext]_vars

\* new runs to its end: no step of it waits on anything
PlannerFairSpec == PlannerSpec /\ WF_vars(PlannerNext)

----------------------------------------------------------------------------
(* Reading the output back *)

\* the big-endian fields at byte offset off of the output
ReadU16(off) == output[off + 1] * 256 + output[off + 2]

ReadU32(off) ==
    ((output[off + 1] * 256 + output[off + 2]) * 256 + output[off + 3]) * 256
        + output[off + 4]

\* a 64-bit entry: its top bit, and the remaining 63 bits (-1 when any of the
\* bits 31..62 is set, which no offset of the model needs)
ReadU64(off) ==
    [top |-> output[off + 1] >= 128,
     value |-> IF output[off + 1] % 128 = 0 /\ output[off + 2] = 0
                  /\ output[off + 3] = 0 /\ output[off + 4] = 0
                  /\ output[off + 5] < 128
               THEN ReadU32(off + 4) ELSE -1]

HeaderWritten == pc \in {"copy", "done"}

Accepted == pc \in {"sizing", "header", "copy", "done"}

\* positions (from 0) of guest cluster g in the data-cluster list
PositionsOf(g) == {p \in 0..(Len(data_clusters) - 1) : data_clusters[p + 1] = g}

----------------------------------------------------------------------------
(* Claims *)

\* C1: every guest cluster g resolves, through the L1 entry floor(g/E) and the
\* entry g mod E of the L2 cluster that entry points to, to the host offset
\* cluster_size * (first_data_cluster + p) with the top bit set when g is at
\* position p of the data-cluster list, and to 0 when g is not in the list;
\* the L1 entry, top bit cleared, is the offset at which that L2 cluster was
\* written.
C1_MappingResolves ==
    HeaderWritten =>
        \A g \in 0..(total_guest_clusters - 1) :
            LET l1 == ReadU64(region.l1 + 8 * (g \div EntriesPerCluster))
                l2 == ReadU64(l1.value + 8 * (g % EntriesPerCluster))
            IN /\ l1.top
               /\ l1.value = region.l2 + CLUSTER_SIZE * (g \div EntriesPerCluster)
               /\ l1.value + CLUSTER_SIZE <= region.data
               /\ IF PositionsOf(g) = {}
                  THEN l2 = [top |-> FALSE, value |-> 0]
                  ELSE \A p \in PositionsOf(g) :
                          l2 = [top |-> TRUE,
                                value |-> CLUSTER_SIZE * (first_data_cluster + p)]

C1_Witness ==
    /\ pc = "done"
    /\ total_guest_clusters > EntriesPerCluster + 1
    /\ PositionsOf(EntriesPerCluster + 1) # {}
    /\ PositionsOf(0) = {}
    /\ Len(data_clusters) > 2

\* C2: the k-th cluster appended by copy_data holds the source bytes of guest
\* cluster data_clusters[k] followed by zeros up to the cluster boundary, for
\* every source reader, also one whose read returns fewer bytes than asked for.
C2_CopiedClusters ==
    pc = "done" =>
        \A k \in 1..Len(data_clusters) : \A i \in 1..CLUSTER_SIZE :
            output[region.data + (k - 1) * CLUSTER_SIZE + i] =
                IF data_clusters[k] * CLUSTER_SIZE + i - 1 < input_size
                THEN SourceByte(data_clusters[k] * CLUSTER_SIZE + i - 1)
                ELSE 0

\* C3: the refcount-block region holds 1 at every entry index below
\* T = first_data_cluster + |data_clusters| and 0 at every index from T to the
\* end of the region.
C3_RefcountEntries ==
    HeaderWritten =>
        LET entries == (region.l1 - region.refcount_blocks) \div 2
        IN /\ entries >= total_clusters
           /\ \A i \in 0..(entries - 1) :
                 ReadU16(region.refcount_blocks + 2 * i) =
                     IF i < total_clusters THEN 1 ELSE 0

C3_Witness ==
    /\ pc = "done"
    /\ total_clusters > BlockEntriesPerCluster
    /\ total_clusters % BlockEntriesPerCluster # 0

\* C4: the L1 table size written in the header equals the number of non-zero
\* L1 entries that write_mapping_table emits.
C4_HeaderL1Size ==
    HeaderWritten =>
        ReadU32(36) =
            Cardinality({n \in 0..(((region.l2 - region.l1) \div 8) - 1) :
                            ReadU64(region.l1 + 8 * n) # [top |-> FALSE, value |-> 0]})

\* C5: the data-cluster list of every accepted range sequence is strictly
\* increasing.
C5_StrictlyIncreasing ==
    Accepted =>
        \A k \in 1..(Len(data_clusters) - 1) : data_clusters[k] < data_clusters[k + 1]

\* three ranges: the second starts in the cluster in which the first ended,
\* the third lies inside the cluster in which the second ended
C5_Witness ==
    /\ pc = "header"
    /\ Len(ranges) = 3
    /\ Len(data_clusters) >= 2
    /\ FromCluster(ranges[2]) = ToCluster(ranges[1]) - 1
    /\ FromCluster(ranges[3]) = ToCluster(ranges[2]) - 1
    /\ ToCluster(ranges[3]) = ToCluster(ranges[2])

RangesInsideInput == \A i \in 1..Len(ranges) : ranges[i].end <= input_size

DataClustersAreGuestClusters ==
    \A k \in 1..Len(data_clusters) :
        data_clusters[k] >= 0 /\ data_clusters[k] < total_guest_clusters

\* C6 as stated: every element of the data-cluster list of an accepted range
\* sequence is a guest cluster, below ceil(N / cluster_size).
C6_Original == Accepted => DataClustersAreGuestClusters

\* C6 amended: so it is when every range ends at or before the input size.
C6_InsideInput == (Accepted /\ RangesInsideInput) => DataClustersAreGuestClusters

C6_Witness ==
    /\ pc = "header"
    /\ RangesInsideInput
    /\ Len(data_clusters) >= 2
    /\ data_clusters[Len(data_clusters)] = total_guest_clusters - 1
    /\ input_size % CLUSTER_SIZE # 0

\* the indices of the ranges that start in a cluster before the last cluster
\* of the range before them
ClusterRegressions ==
    {i \in 2..Len(ranges) :
        ranges[i].start \div CLUSTER_SIZE
            < divide_and_round_up(ranges[i - 1].end, CLUSTER_SIZE) - 1}

\* C7: a range sequence with a range that starts in a cluster before the last
\* cluster of the range before it is rejected by new, at that range at the
\* latest, and no byte of output is written.
C7_RegressionRejected ==
    \A i \in ClusterRegressions :
        /\ output = <<>>
        /\ pc = "panicked" \/ (pc = "ranges" /\ idx <= i)

C7_Witness ==
    /\ pc = "panicked"
    /\ ClusterRegressions # {}
    /\ Len(data_clusters) > 0

StartDecreases == \E i \in 2..Len(ranges) : ranges[i].start < ranges[i - 1].start

\* C8 as stated: every range sequence whose starts decrease somewhere is
\* rejected by new.
C8_Original == (StartDecreases /\ pc # "ranges") => pc = "panicked"

\* C8 amended: new rejects exactly the sequences with a range that starts in a
\* cluster before the last cluster of the range before it; a start that
\* decreases inside that last cluster is accepted.
C8_RejectsClusterRegressions ==
    pc # "ranges" => (pc = "panicked" <=> ClusterRegressions # {})

C8_Witness ==
    /\ pc = "header"
    /\ StartDecreases
    /\ Len(data_clusters) > 0

\* C9: write_header emits the header cluster, the RT refcount table clusters,
\* the RB refcount block clusters, the L1 clusters and the L2 clusters in that
\* order, cluster_size * first_data_cluster bytes in all, and after copy_data
\* the output is file_size() bytes long.
C9_Layout ==
    HeaderWritten =>
        /\ region.refcount_table = CLUSTER_SIZE
        /\ region.refcount_blocks = CLUSTER_SIZE * (1 + refcount_table_clusters)
        /\ region.l1 = CLUSTER_SIZE * (1 + refcount_table_clusters + refcount_blocks)
        /\ region.l1 = l1_offset
        /\ region.l2 = region.l1 + CLUSTER_SIZE * l1_clusters
        /\ region.data = region.l2 + CLUSTER_SIZE * l2_tables
        /\ region.data = CLUSTER_SIZE * first_data_cluster
        /\ pc = "copy" => Len(output) = region.data
        /\ pc = "done" => Len(output) = file_size

C9_Witness ==
    /\ pc = "done"
    /\ refcount_table_clusters > 1
    /\ refcount_blocks % EntriesPerCluster # 0
    /\ l1_clusters > 1
    /\ l2_tables > 1
    /\ Len(data_clusters) > 0
    /\ total_guest_clusters % EntriesPerCluster # 0

\* C10: the sizing loop ends; the number of refcount blocks never decreases
\* from one iteration to the next; and at the exit RB = ceil(2 T / cluster_size)
\* and RT = ceil(8 RB / cluster_size), T = 1 + RT + RB + L1 + L2 + |data clusters|.
C10_Sizing ==
    /\ [][pc = "sizing" => refcount_blocks' >= refcount_blocks]_vars
    /\ [](pc = "header" =>
            /\ refcount_blocks = divide_and_round_up(2 * LoopTotalClusters, CLUSTER_SIZE)
            /\ refcount_table_clusters =
                  divide_and_round_up(8 * refcount_blocks, CLUSTER_SIZE))
    /\ (pc = "sizing") ~> (pc = "header")

\* the block count computed by the first iteration of the loop
FirstIterationBlocks ==
    NewRefcountBlocks(1 + 1 + 1 + l1_clusters + l2_tables + Len(data_clusters))

\* a plan reached through two changes of the block count, with a refcount
\* table of more than one cluster
C10_Witness ==
    /\ pc = "header"
    /\ refcount_table_clusters > 1
    /\ 1 < FirstIterationBlocks
    /\ FirstIterationBlocks < refcount_blocks

=============================================================================
